---- MODULE Spec2Model ----
(***************************************************************************)
(* A model of the file organizer (scripts/python/file-organizer/           *)
(* Organazer.py): the FileOrganizer object, the folder it works on, and    *)
(* the operations organize_files, process_file, get_unique_filename,       *)
(* is_exact_duplicate, find_all_duplicates, remove_duplicates and          *)
(* save_report.                                                            *)
(*                                                                         *)
(* File names are sequences of one-character strings, so that rsplit,      *)
(* Path.suffix, str.lower, startswith and the f-string that builds a new   *)
(* name are computed as Python computes them.  A path is a pair            *)
(* <<folder, name>>: folder "" is the source folder itself, any other      *)
(* folder is a sub-folder of it.  File contents are sequences of bytes.    *)
(***************************************************************************)
EXTENDS Integers, Sequences, FiniteSets, TLC

(***************************************************************************)
(* Bounds of the model.                                                    *)
(***************************************************************************)
\* the largest number of files the source folder starts with
MaxSrc == 2
\* the length of the longest run of occupied names base, base_1, base_2, ...
\* in a category folder (longer than the attempt limit of get_unique_filename)
LongChain == 102

(***************************************************************************)
(* Strings.                                                                *)
(***************************************************************************)
Digits == <<"0","1","2","3","4","5","6","7","8","9">>

\* str(n) for n >= 0, as used by f"{counter}"
RECURSIVE Str(_)
Str(n) == IF n < 10 THEN <<Digits[n + 1]>> ELSE Str(n \div 10) \o <<Digits[(n % 10) + 1]>>

\* n written with at least w digits, zero padded (strftime's %Y %m %d %H %M %S %f)
RECURSIVE Pad(_, _)
Pad(n, w) == IF Len(Str(n)) >= w THEN Str(n) ELSE <<"0">> \o Pad(n, w - 1)

UpperToLower ==
  [c \in {"A","B","C","D","E","F","G","H","I","J","K","L","M",
          "N","O","P","Q","R","S","T","U","V","W","X","Y","Z"} |->
     CASE c = "A" -> "a" [] c = "B" -> "b" [] c = "C" -> "c" [] c = "D" -> "d"
       [] c = "E" -> "e" [] c = "F" -> "f" [] c = "G" -> "g" [] c = "H" -> "h"
       [] c = "I" -> "i" [] c = "J" -> "j" [] c = "K" -> "k" [] c = "L" -> "l"
       [] c = "M" -> "m" [] c = "N" -> "n" [] c = "O" -> "o" [] c = "P" -> "p"
       [] c = "Q" -> "q" [] c = "R" -> "r" [] c = "S" -> "s" [] c = "T" -> "t"
       [] c = "U" -> "u" [] c = "V" -> "v" [] c = "W" -> "w" [] c = "X" -> "x"
       [] c = "Y" -> "y" [] c = "Z" -> "z"]

\* str.lower()
Lower(s) == [i \in 1..Len(s) |-> IF s[i] \in DOMAIN UpperToLower THEN UpperToLower[s[i]] ELSE s[i]]

\* str.rfind('.') + 1: the position of the last dot, 0 when there is none
RFindDot(s) == IF \E i \in 1..Len(s) : s[i] = "."
               THEN CHOOSE i \in 1..Len(s) : s[i] = "." /\ \A j \in (i + 1)..Len(s) : s[j] # "."
               ELSE 0

\* Path.suffix: the last dot and what follows it, unless the dot starts or ends the name
Suffix(name) == LET i == RFindDot(name)
                IN  IF 1 < i /\ i < Len(name) THEN SubSeq(name, i, Len(name)) ELSE <<>>

\* name.rsplit('.', 1)[0] and the extension get_unique_filename derives from it
BaseName(name) == LET i == RFindDot(name)
                  IN  IF i = 0 THEN name ELSE SubSeq(name, 1, i - 1)

Extension(name) == LET i == RFindDot(name)
                   IN  IF i = 0 THEN <<>> ELSE <<".">> \o SubSeq(name, i + 1, Len(name))

\* name.startswith('.')
StartsWithDot(name) == Len(name) > 0 /\ name[1] = "."

\* f"{base_name}_{counter}{extension}"
NumberedName(name, counter) == BaseName(name) \o <<"_">> \o Str(counter) \o Extension(name)

\* datetime.now().strftime("%Y%m%d_%H%M%S_%f") of a clock reading
Strftime(now) == Pad(now.Y, 4) \o Pad(now.m, 2) \o Pad(now.d, 2) \o <<"_">>
                 \o Pad(now.H, 2) \o Pad(now.M, 2) \o Pad(now.S, 2) \o <<"_">> \o Pad(now.f, 6)

\* f"{base_name}_{timestamp}{extension}"
TimestampName(name, now) == BaseName(name) \o <<"_">> \o Strftime(now) \o Extension(name)

(***************************************************************************)
(* The category table, in the order of the dict literal.                   *)
(***************************************************************************)
get_category_mappings ==
  <<
    [category |-> "Images", extensions |-> <<
       <<".","j","p","g">>, <<".","j","p","e","g">>, <<".","p","n","g">>, <<".","g","i","f">>,
       <<".","b","m","p">>, <<".","s","v","g">>, <<".","w","e","b","p">>,
       <<".","t","i","f","f">> >>],
    [category |-> "Documents", extensions |-> <<
       <<".","p","d","f">>, <<".","d","o","c","x">>, <<".","d","o","c">>, <<".","t","x","t">>,
       <<".","r","t","f">>, <<".","x","l","s","x">>, <<".","x","l","s">>,
       <<".","p","p","t","x">>, <<".","o","d","t">>, <<".","o","d","p">>, <<".","o","d","s">> >>],
    [category |-> "Archives", extensions |-> <<
       <<".","z","i","p">>, <<".","r","a","r">>, <<".","7","z">>, <<".","t","a","r">>,
       <<".","g","z">>, <<".","b","z","2">>, <<".","x","z">> >>],
    [category |-> "Scripts", extensions |-> <<
       <<".","p","y">>, <<".","j","s">>, <<".","j","a","v","a">>, <<".","c","p","p">>,
       <<".","c">>, <<".","h">>, <<".","h","t","m","l">>, <<".","c","s","s">>,
       <<".","p","h","p">>, <<".","s","h">>, <<".","b","a","t">> >>],
    [category |-> "Videos", extensions |-> <<
       <<".","m","p","4">>, <<".","a","v","i">>, <<".","m","o","v">>, <<".","m","k","v">>,
       <<".","w","m","v">>, <<".","f","l","v">>, <<".","w","e","b","m">>, <<".","m","4","v">> >>],
    [category |-> "Audio", extensions |-> <<
       <<".","m","p","3">>, <<".","w","a","v">>, <<".","f","l","a","c">>, <<".","a","a","c">>,
       <<".","o","g","g">>, <<".","m","4","a">>, <<".","w","m","a">> >>],
    [category |-> "Executables", extensions |-> <<
       <<".","e","x","e">>, <<".","m","s","i">>, <<".","d","m","g">>, <<".","a","p","k">>,
       <<".","a","p","p">>, <<".","d","e","b">>, <<".","r","p","m">> >>],
    [category |-> "Fonts", extensions |-> <<
       <<".","t","t","f">>, <<".","o","t","f">>, <<".","w","o","f","f">>,
       <<".","w","o","f","f","2">>, <<".","e","o","t">> >>],
    [category |-> "Data", extensions |-> <<
       <<".","c","s","v">>, <<".","j","s","o","n">>, <<".","x","m","l">>, <<".","s","q","l">>,
       <<".","d","b">>, <<".","s","q","l","i","t","e">>, <<".","y","a","m","l">>,
       <<".","y","m","l">> >>],
    [category |-> "Presentations", extensions |-> <<
       <<".","p","p","t">>, <<".","p","p","t","x">>, <<".","k","e","y">> >>],
    [category |-> "Ebooks", extensions |-> <<
       <<".","e","p","u","b">>, <<".","m","o","b","i">>, <<".","a","z","w","3">> >>],
    [category |-> "Torrents", extensions |-> <<
       <<".","t","o","r","r","e","n","t">> >>],
    [category |-> "Certificates", extensions |-> <<
       <<".","p","e","m">>, <<".","c","r","t">>, <<".","k","e","y">>, <<".","c","e","r">>,
       <<".","p","f","x">> >>],
    [category |-> "Configs", extensions |-> <<
       <<".","i","n","i">>, <<".","c","f","g">>, <<".","c","o","n","f">>,
       <<".","p","r","o","p","e","r","t","i","e","s">> >>]
  >>

CategoryNames == {get_category_mappings[i].category : i \in DOMAIN get_category_mappings}

InSeq(x, s) == \E i \in 1..Len(s) : s[i] = x

\* the "for category, extensions in self.categories.items(): if file_ext in extensions"
\* scan of process_file: the index of the first category listing file_ext, 0 for none
FirstCategory(file_ext) ==
  LET hits == {i \in DOMAIN get_category_mappings : InSeq(file_ext, get_category_mappings[i].extensions)}
  IN  IF hits = {} THEN 0 ELSE CHOOSE i \in hits : \A j \in hits : i <= j

(***************************************************************************)
(* The folder.  fs maps each path of a regular file to its content, its    *)
(* modification time and two facts of the environment: whether the file    *)
(* can be read, and whether it can be unlinked or renamed.                 *)
(***************************************************************************)
Root == ""

Size(file) == Len(file.content)

HexDigits == <<"0","1","2","3","4","5","6","7","8","9","a","b","c","d","e","f">>

\* hashlib.md5: update() folds the bytes into the running digest.  The digest
\* is narrowed to 16 bits; what is kept of MD5 is that it is a function of
\* the bytes alone and has a fixed width.
RECURSIVE Md5Update(_, _)
Md5Update(h, chunk) ==
  IF chunk = <<>> THEN h
  ELSE Md5Update((h * 31 + Head(chunk) + 7) % 65536, Tail(chunk))

HexDigest(h) == << HexDigits[(h \div 4096) + 1], HexDigits[((h \div 256) % 16) + 1],
                   HexDigits[((h \div 16) % 16) + 1], HexDigits[(h % 16) + 1] >>

\* get_file_hash: "" when the file cannot be opened or read
get_file_hash(files, file_path) ==
  IF file_path \notin DOMAIN files \/ ~files[file_path].readable
  THEN <<>>
  ELSE HexDigest(Md5Update(5381, files[file_path].content))

\* hash_cache.get(path), computing and storing the hash when it is absent
CachedHash(files, cache, path) ==
  IF path \in DOMAIN cache
  THEN [hash |-> cache[path], cache |-> cache]
  ELSE LET h == get_file_hash(files, path)
       IN  [hash |-> h, cache |-> (path :> h) @@ cache]

\* the comparison of the hashes without the test that they are not empty
HashesAgree_EmptyEqual(hash1, hash2) == hash1 = hash2

\* hash1 and hash2 and hash1 == hash2
HashesAgree(hash1, hash2) == hash1 # <<>> /\ hash2 # <<>> /\ hash1 = hash2

\* is_exact_duplicate answering from the sizes alone
is_exact_duplicate_SizeOnly(files, cache, file1, file2) ==
  [result |-> /\ file1 \in DOMAIN files
              /\ file2 \in DOMAIN files
              /\ Size(files[file1]) = Size(files[file2]),
   cache |-> cache]

\* FileOrganizer.is_exact_duplicate: the answer and the hash cache it leaves
is_exact_duplicate(files, cache, file1, file2) ==
  IF file1 \notin DOMAIN files \/ file2 \notin DOMAIN files
  THEN [result |-> FALSE, cache |-> cache]            \* stat() raises OSError
  ELSE IF Size(files[file1]) # Size(files[file2])
  THEN [result |-> FALSE, cache |-> cache]
  ELSE LET h1 == CachedHash(files, cache, file1)
           h2 == CachedHash(files, h1.cache, file2)
       IN  [result |-> HashesAgree(h1.hash, h2.hash), cache |-> h2.cache]

\* the attempt limit of get_unique_filename ("if counter > 100")
MaxAttempts == 100

Remove(files, path) == [p \in DOMAIN files \ {path} |-> files[p]]

Bump(st, key) == [st EXCEPT ![key] = @ + 1]

\* the duplicate branch counting a removal without unlinking the source file
DuplicateFound_KeepsSource(files, st, dry, file_path) ==
  IF dry THEN [files |-> files, stats |-> Bump(st, "duplicates_found")]
  ELSE [files |-> files, stats |-> Bump(Bump(st, "duplicates_found"), "duplicates_removed")]

\* the duplicate branch of get_unique_filename (lines 96-111): count the
\* duplicate and, unless this is a dry run, unlink the source file; an unlink
\* that raises is counted as an error
DuplicateFound(files, st, dry, file_path) ==
  LET found == Bump(st, "duplicates_found")
  IN  IF dry THEN [files |-> files, stats |-> found]
      ELSE IF files[file_path].locked
      THEN [files |-> files, stats |-> Bump(found, "errors")]
      ELSE [files |-> Remove(files, file_path), stats |-> Bump(found, "duplicates_removed")]

\* the limit test with a limit written too large
LimitReached_Late(n) == n > 2 * MaxAttempts

\* "if counter > 100", tested after the counter was raised
LimitReached(n) == n > MaxAttempts

(***************************************************************************)
(* find_all_duplicates and remove_duplicates.                              *)
(***************************************************************************)
\* find_all_duplicates(recursive=False): the files of the source folder itself only
find_all_duplicates_TopLevel(files) ==
  LET all_files == {p \in DOMAIN files : p[1] = Root /\ ~StartsWithDot(p[2])}
      hashes    == {get_file_hash(files, p) : p \in all_files} \ {<<>>}
      groups    == {{p \in all_files : get_file_hash(files, p) = h} : h \in hashes}
  IN  {g \in groups : Cardinality(g) > 1}

\* find_all_duplicates(recursive=True): the files of the whole tree that are
\* not hidden and whose hash could be computed, grouped by hash; only the
\* groups of more than one file are returned
find_all_duplicates(files) ==
  LET all_files == {p \in DOMAIN files : ~StartsWithDot(p[2])}
      hashes    == {get_file_hash(files, p) : p \in all_files} \ {<<>>}
      groups    == {{p \in all_files : get_file_hash(files, p) = h} : h \in hashes}
  IN  {g \in groups : Cardinality(g) > 1}

\* the choice of file_to_keep with the sense of keep_oldest reversed
CanBeKept_Reversed(files, group, oldest) ==
  {p \in group : \A q \in group :
      IF oldest THEN files[p].mtime >= files[q].mtime
                ELSE files[p].mtime <= files[q].mtime}

\* files_with_mtime.sort(key=mtime), reversed when keep_oldest is false, and
\* then files_with_mtime[0]: the sort is stable and the order rglob lists
\* the files in is arbitrary, so the first element can be any member with
\* the least (keep_oldest) or the greatest modification time
CanBeKept(files, group, keep_oldest) ==
  {p \in group : \A q \in group :
      IF keep_oldest THEN files[p].mtime <= files[q].mtime
                     ELSE files[p].mtime >= files[q].mtime}

\* every way of choosing file_to_keep in each group
RECURSIVE KeepChoices(_, _, _)
KeepChoices(files, groups, keep_oldest) ==
  IF groups = {} THEN {{}}
  ELSE LET g == CHOOSE x \in groups : TRUE
       IN  {ks \cup {k} : ks \in KeepChoices(files, groups \ {g}, keep_oldest),
                          k \in CanBeKept(files, g, keep_oldest)}

\* the deletion loop running over files_with_mtime instead of files_with_mtime[1:]
Unlinked_All(files, groups, kept) == {p \in UNION groups : ~files[p].locked}

\* the deletion loop given up at an unlink that raises: with a file that cannot
\* be unlinked among those to delete, no file being deleted
Unlinked_StopsAtFailure(files, groups, kept) ==
  IF \E p \in (UNION groups) \ kept : files[p].locked THEN {}
  ELSE (UNION groups) \ kept

\* the files the deletion loop unlinks with success: files_with_mtime[1:] of
\* every group, but for those whose unlink raises
Unlinked(files, groups, kept) == {p \in (UNION groups) \ kept : ~files[p].locked}

(***************************************************************************)
(* The state.                                                              *)
(***************************************************************************)
VARIABLES
  source_exists,     \* whether source_folder exists
  dirs,              \* the sub-folders of source_folder that exist
  fs,                \* the regular files of the tree
  dry_run,           \* FileOrganizer.dry_run
  stats,             \* FileOrganizer.stats
  hash_cache,        \* FileOrganizer.hash_cache
  pc,                \* where main() and organize_files stand
  files_to_process,  \* the snapshot organize_files took
  pos,               \* the index in files_to_process of the file being processed
  target_folder,     \* process_file's target_folder ("" outside process_file)
  new_name,          \* get_unique_filename's new_name: new_path is target_folder / new_name
  counter,           \* get_unique_filename's counter
  iterations,        \* passes through the loop body in this get_unique_filename call
  fs0,               \* the files of the tree when organize_files was entered
  dirs0,             \* the sub-folders when organize_files was entered
  prev,              \* the run of the FileOrganizer built before this one, <<>> for none
  keep_oldest,       \* the argument of remove_duplicates, once it was called
  file_to_keep       \* remove_duplicates' file_to_keep of every group, once it was called

vars == <<source_exists, dirs, fs, dry_run, stats, hash_cache, pc, files_to_process,
          pos, target_folder, new_name, counter, iterations, fs0, dirs0, prev,
                 keep_oldest, file_to_keep>>

\* FileOrganizer.__init__: the counters, all zero
ZeroStats == [processed |-> 0, moved |-> 0, renamed |-> 0, duplicates_found |-> 0,
              duplicates_removed |-> 0, errors |-> 0, skipped |-> 0]

EmptyCache == [p \in {} |-> <<>>]

NoName == <<>>

(***************************************************************************)
(* The folders a run can start from.                                       *)
(***************************************************************************)
X == <<1, 2>>
Y == <<2, 1>>
Z == <<3>>

File(content, mtime, readable, locked) ==
  [content |-> content, mtime |-> mtime, readable |-> readable, locked |-> locked]

a_jpg   == <<"a",".","j","p","g">>
a_1_jpg == <<"a","_","1",".","j","p","g">>
n_xyz   == <<"n",".","x","y","z">>
h_jpg   == <<".","h",".","j","p","g">>
x_log   == <<"x",".","l","o","g">>
c_PDF   == <<"c",".","P","D","F">>
report_json == <<"o","r","g","a","n","i","z","a","t","i","o","n","_","r","e","p","o","r","t",
                 ".","j","s","o","n">>

\* the files the source folder may hold at the start: a name and a file
SourceUniverse ==
  { <<a_jpg, File(X, 0, TRUE, FALSE)>>,  <<a_jpg, File(Y, 0, TRUE, FALSE)>>,
    <<a_jpg, File(Y, 0, FALSE, FALSE)>>, <<a_jpg, File(Y, 0, TRUE, TRUE)>>,
    <<a_1_jpg, File(X, 5, TRUE, FALSE)>>,
    <<c_PDF, File(X, 0, TRUE, FALSE)>>,
    <<n_xyz, File(X, 0, TRUE, FALSE)>>,
    <<h_jpg, File(X, 0, TRUE, FALSE)>>,
    <<x_log, File(X, 0, TRUE, TRUE)>> }

SourceSets ==
  {S \in SUBSET SourceUniverse :
      /\ Cardinality(S) <= MaxSrc
      /\ \A e1, e2 \in S : e1[1] = e2[1] => e1 = e2}

\* the files of a source set, as a part of fs
SourceFiles(S) == [p \in {<<Root, e[1]>> : e \in S} |->
                     (CHOOSE e \in S : e[1] = p[2])[2]]

\* the clock readings datetime.now() may give
Clock == { [Y |-> 2024, m |-> 1, d |-> 2, H |-> 3, M |-> 4, S |-> 5, f |-> 6],
           [Y |-> 2024, m |-> 1, d |-> 2, H |-> 3, M |-> 4, S |-> 5, f |-> 7] }

ChainName(k) == IF k = 0 THEN a_jpg ELSE NumberedName(a_jpg, k)

\* Images/a.jpg, Images/a_1.jpg, ..., Images/a_<n-1>.jpg, all with content Y and each
\* newer than the one before
Chain(n, readable) ==
  [p \in {<<"Images", ChainName(k)>> : k \in 0..(n - 1)} |->
     File(Y, 1 + (CHOOSE k \in 0..(n - 1) : ChainName(k) = p[2]), readable, FALSE)]

\* Images/a_<timestamp>.jpg for the first clock reading
StampFile == LET now == CHOOSE c \in Clock : c.f = 6
             IN  (<<"Images", TimestampName(a_jpg, now)>> :> File(Z, 0, TRUE, FALSE))

\* what the category folders may hold at the start
CategoryFiles ==
  { Chain(0, TRUE), Chain(1, TRUE), Chain(1, FALSE), Chain(2, TRUE),
    Chain(MaxAttempts, TRUE) @@ StampFile, Chain(LongChain, TRUE) }

\* the short lists of CategoryFiles, for the runs that follow one another
ShortCategoryFiles == { Chain(0, TRUE), Chain(1, TRUE), Chain(2, TRUE) }

\* every order in which iterdir may list the files of a set
Orders(S) == {s \in [1..Cardinality(S) -> S] : \A i, j \in DOMAIN s : s[i] = s[j] => i = j}

\* the state after FileOrganizer(source_folder, dry_run), for a folder whose
\* category folders hold one of the given lists of files
InitWith(category_files) ==
  /\ source_exists \in BOOLEAN
  /\ \E S \in SourceSets, C \in category_files, made \in BOOLEAN :
        /\ (~source_exists) => (S = {} /\ C = Chain(0, TRUE) /\ ~made)
        /\ (C # Chain(0, TRUE)) => made
        /\ dirs = IF made THEN CategoryNames ELSE {}
        /\ fs = SourceFiles(S) @@ C
  /\ dry_run \in BOOLEAN
  /\ stats = ZeroStats
  /\ hash_cache = EmptyCache
  /\ pc = "constructed"
  /\ files_to_process = <<>>
  /\ pos = 0
  /\ target_folder = Root
  /\ new_name = NoName
  /\ counter = 0
  /\ iterations = 0
  /\ fs0 = fs
  /\ dirs0 = dirs
  /\ prev = <<>>
  /\ keep_oldest = TRUE
  /\ file_to_keep = {}

Init == InitWith(CategoryFiles)

(***************************************************************************)
(* organize_files.                                                         *)
(***************************************************************************)
\* the filter of the snapshot: a regular file of the source folder itself
\* that is not hidden and is not a .log file
Snapshotted(files) ==
  {p \in DOMAIN files : p[1] = Root /\ ~StartsWithDot(p[2]) /\ Suffix(p[2]) # <<".","l","o","g">>}

\* create_category_folders without its test of dry_run
create_category_folders_Always(folders, dry) == folders \cup CategoryNames

\* create_category_folders: mkdir for each missing category folder, unless dry
create_category_folders(folders, dry) == IF dry THEN folders ELSE folders \cup CategoryNames

\* iterdir lists a folder that did not change since the run before in the
\* order it listed it then
SameListing(before, files) == Len(before) = 1 /\ before[1].pos > 0 /\ before[1].fs0 = files

\* organize_files up to the loop over the snapshot (lines 178-191)
OrganizeFiles ==
  /\ pc = "constructed"
  /\ IF ~source_exists
     THEN /\ pc' = "notfound"
          /\ UNCHANGED <<dirs, stats, files_to_process, pos, fs0, dirs0>>
     ELSE /\ dirs' = create_category_folders(dirs, dry_run)
          /\ \E order \in Orders(Snapshotted(fs)) :
                /\ SameListing(prev, fs) => order = prev[1].order
                /\ files_to_process' = order
                /\ stats' = [stats EXCEPT !.processed = Len(order)]
          /\ pos' = 1
          /\ fs0' = fs
          /\ dirs0' = dirs
          /\ pc' = "loop"
  /\ UNCHANGED <<source_exists, fs, dry_run, hash_cache, target_folder, new_name, counter,
                 iterations, prev,
                 keep_oldest, file_to_keep>>

\* the scan of the categories falling back on the last category
CategoryOf_Fallback(name) ==
  IF FirstCategory(Lower(Suffix(name))) = 0 THEN Len(get_category_mappings)
  ELSE FirstCategory(Lower(Suffix(name)))

\* file_path.suffix.lower() and the scan of the categories (lines 201-205)
CategoryOf(name) == FirstCategory(Lower(Suffix(name)))

\* process_file up to the call of get_unique_filename (lines 201-209) and that
\* call up to its loop (lines 83-90); for a file of no category, the whole of
\* process_file (lines 248-251)
ProcessFile ==
  /\ pc = "loop"
  /\ pos <= Len(files_to_process)
  /\ LET file_path == files_to_process[pos]
         c         == CategoryOf(file_path[2])
     IN  IF c = 0
         THEN /\ stats' = Bump(stats, "skipped")
              /\ pos' = pos + 1
              /\ UNCHANGED <<pc, target_folder, new_name, counter, iterations>>
         ELSE /\ target_folder' = get_category_mappings[c].category
              /\ new_name' = file_path[2]
              /\ counter' = 1
              /\ iterations' = 0
              /\ pc' = "unique"
              /\ UNCHANGED <<stats, pos>>
  /\ UNCHANGED <<source_exists, dirs, fs, dry_run, hash_cache, files_to_process,
                 fs0, dirs0, prev,
                 keep_oldest, file_to_keep>>

\* one test of "while new_path.exists()" in get_unique_filename and, when the
\* path is occupied, one pass through the loop body (lines 93-123); the
\* returns of the function (lines 111 and 125) and, after None was returned,
\* the end of process_file (lines 211-214)
GetUniqueFilename ==
  /\ pc = "unique"
  /\ LET file_path == files_to_process[pos]
         new_path  == <<target_folder, new_name>>
     IN  IF new_path \notin DOMAIN fs
         THEN /\ pc' = "resolved"
              /\ UNCHANGED <<fs, stats, hash_cache, pos, target_folder, new_name, counter,
                             iterations>>
         ELSE LET d == is_exact_duplicate(fs, hash_cache, file_path, new_path)
              IN  /\ hash_cache' = d.cache
                  /\ iterations' = iterations + 1
                  /\ IF d.result
                     THEN LET r == DuplicateFound(fs, stats, dry_run, file_path)
                          IN  /\ fs' = r.files
                              /\ stats' = r.stats
                              /\ pos' = pos + 1
                              /\ pc' = "loop"
                              /\ target_folder' = Root
                              /\ new_name' = NoName
                              /\ counter' = 0
                     ELSE /\ counter' = counter + 1
                          /\ IF LimitReached(counter + 1)
                             THEN /\ \E now \in Clock :
                                       new_name' = TimestampName(file_path[2], now)
                                  /\ pc' = "resolved"
                             ELSE /\ new_name' = NumberedName(file_path[2], counter)
                                  /\ pc' = "unique"
                          /\ UNCHANGED <<fs, stats, pos, target_folder>>
  /\ UNCHANGED <<source_exists, dirs, dry_run, files_to_process, fs0, dirs0, prev,
                 keep_oldest, file_to_keep>>

\* process_file's unique_path, once get_unique_filename returned it
unique_path == <<target_folder, new_name>>

\* FileOrganizer.check_case_insensitive_duplicate, for a folder that can be
\* listed: its answer only chooses whether a warning is logged
check_case_insensitive_duplicate(files, filename, folder) ==
  \E p \in DOMAIN files : p[1] = folder /\ Lower(p[2]) = Lower(filename)

\* shutil.move leaving the file at its old path as well
Move_Copy(files, file_path, dest) ==
  [p \in DOMAIN files \cup {dest} |-> IF p = dest THEN files[file_path] ELSE files[p]]

\* shutil.move(file_path, unique_path): the file leaves its path and is the
\* file at unique_path, whatever was there
Move(files, file_path, dest) ==
  [p \in (DOMAIN files \ {file_path}) \cup {dest} |->
     IF p = dest THEN files[file_path] ELSE files[p]]

\* the try block counting a move it did not make in a dry run
MoveFile_CountsDry(files, st, dry, file_path, dest) ==
  IF dry
  THEN [files |-> files,
        stats |-> IF file_path[2] # dest[2] THEN Bump(Bump(st, "moved"), "renamed")
                  ELSE Bump(st, "moved")]
  ELSE IF files[file_path].locked
  THEN [files |-> files, stats |-> Bump(st, "errors")]
  ELSE [files |-> Move(files, file_path, dest),
        stats |-> IF file_path[2] # dest[2] THEN Bump(Bump(st, "moved"), "renamed")
                  ELSE Bump(st, "moved")]

\* the try block not counting the moves it makes
MoveFile_Uncounted(files, st, dry, file_path, dest) ==
  IF dry
  THEN [files |-> files, stats |-> st]
  ELSE IF files[file_path].locked
  THEN [files |-> files, stats |-> Bump(st, "errors")]
  ELSE [files |-> Move(files, file_path, dest), stats |-> st]

\* the except block not counting the error
MoveFile_SilentFailure(files, st, dry, file_path, dest) ==
  IF dry
  THEN [files |-> files, stats |-> st]
  ELSE IF files[file_path].locked
  THEN [files |-> files, stats |-> st]
  ELSE [files |-> Move(files, file_path, dest),
        stats |-> IF file_path[2] # dest[2] THEN Bump(Bump(st, "moved"), "renamed")
                  ELSE Bump(st, "moved")]

\* the try block counting a move under a new name as a move only
MoveFile_RenameUncounted(files, st, dry, file_path, dest) ==
  IF dry
  THEN [files |-> files, stats |-> st]
  ELSE IF files[file_path].locked
  THEN [files |-> files, stats |-> Bump(st, "errors")]
  ELSE [files |-> Move(files, file_path, dest), stats |-> Bump(st, "moved")]

\* the try block of process_file (lines 221-246)
MoveFile(files, st, dry, file_path, dest) ==
  IF dry
  THEN [files |-> files, stats |-> st]
  ELSE IF files[file_path].locked
  THEN [files |-> files, stats |-> Bump(st, "errors")]
  ELSE [files |-> Move(files, file_path, dest),
        stats |-> IF file_path[2] # dest[2] THEN Bump(Bump(st, "moved"), "renamed")
                  ELSE Bump(st, "moved")]

\* whether target_folder.iterdir() lists the folder: it raises for a folder
\* that does not exist, and the environment may refuse the listing (can_list)
ListingWorks(folders, folder, can_list) == folder \in folders /\ can_list

\* the rest of process_file (lines 216-246): the listing of the target folder
\* by check_case_insensitive_duplicate, which is outside the try block, and
\* then the move
PlaceFile ==
  /\ pc = "resolved"
  /\ \E can_list \in BOOLEAN :
       IF ~ListingWorks(dirs, target_folder, can_list)
       THEN /\ pc' = "raised"
            /\ UNCHANGED <<fs, stats, pos>>
       ELSE LET r == MoveFile(fs, stats, dry_run, files_to_process[pos], unique_path)
            IN  /\ fs' = r.files
                /\ stats' = r.stats
                /\ pos' = pos + 1
                /\ pc' = "loop"
  /\ target_folder' = Root
  /\ new_name' = NoName
  /\ counter' = 0
  /\ UNCHANGED <<source_exists, dirs, dry_run, hash_cache, files_to_process, iterations,
                 fs0, dirs0, prev,
                 keep_oldest, file_to_keep>>

\* the end of the loop of organize_files: return True (line 197)
OrganizeReturn ==
  /\ pc = "loop"
  /\ pos > Len(files_to_process)
  /\ pc' = "returned"
  /\ UNCHANGED <<source_exists, dirs, fs, dry_run, stats, hash_cache, files_to_process,
                 pos, target_folder, new_name, counter, iterations, fs0, dirs0, prev,
                 keep_oldest, file_to_keep>>

(***************************************************************************)
(* remove_duplicates and save_report.                                      *)
(***************************************************************************)
\* remove_duplicates(keep_oldest), called on its own or after organize_files
RemoveDuplicates ==
  /\ pc \in {"constructed", "returned"}
  /\ source_exists
  /\ \E oldest \in BOOLEAN :
       LET duplicates == find_all_duplicates(fs)
       IN  \E kept \in KeepChoices(fs, duplicates, oldest) :
             LET gone == IF dry_run THEN {} ELSE Unlinked(fs, duplicates, kept)
             IN  /\ fs' = [p \in DOMAIN fs \ gone |-> fs[p]]
                 /\ stats' = [stats EXCEPT !.duplicates_removed = @ + Cardinality(gone)]
                 /\ keep_oldest' = oldest
                 /\ file_to_keep' = kept
  /\ pc' = "deduplicated"
  /\ UNCHANGED <<source_exists, dirs, dry_run, hash_cache, files_to_process, pos,
                 target_folder, new_name, counter, iterations, fs0, dirs0, prev>>

\* the bytes json.dump writes: only that there are some is kept
ReportBytes == <<123, 125>>

\* save_report(): organization_report.json in the source folder, unless dry
save_report(files, dry) ==
  IF dry THEN files
  ELSE (<<Root, report_json>> :> File(ReportBytes, 9, TRUE, FALSE)) @@ files

SaveReport ==
  /\ pc \in {"returned", "deduplicated"}
  /\ source_exists
  /\ fs' = save_report(fs, dry_run)
  /\ pc' = "saved"
  /\ UNCHANGED <<source_exists, dirs, dry_run, stats, hash_cache, files_to_process, pos,
                 target_folder, new_name, counter, iterations, fs0, dirs0, prev,
                 keep_oldest, file_to_keep>>

\* main() ends and is started again: a new FileOrganizer (lines 62-76) for the
\* same folder, with the dry_run the user answers; prev keeps what the
\* organizer before it did
NewOrganizer ==
  /\ pc \in {"returned", "deduplicated", "saved", "raised"}
  /\ prev = <<>>
  /\ prev' = << [dry_run |-> dry_run, stats |-> stats, fs0 |-> fs0, dirs0 |-> dirs0,
                 order |-> files_to_process, pos |-> pos,
                 returned |-> (pc # "raised" /\ pos > 0)] >>
  /\ dry_run' \in BOOLEAN
  /\ stats' = ZeroStats
  /\ hash_cache' = EmptyCache
  /\ pc' = "constructed"
  /\ files_to_process' = <<>>
  /\ pos' = 0
  /\ target_folder' = Root
  /\ new_name' = NoName
  /\ counter' = 0
  /\ iterations' = 0
  /\ fs0' = fs
  /\ dirs0' = dirs
  /\ keep_oldest' = TRUE
  /\ file_to_keep' = {}
  /\ UNCHANGED <<source_exists, dirs, fs>>

Next ==
  \/ OrganizeFiles
  \/ ProcessFile
  \/ GetUniqueFilename
  \/ PlaceFile
  \/ OrganizeReturn
  \/ RemoveDuplicates
  \/ SaveReport

\* one FileOrganizer, as main() builds and uses it
Spec == Init /\ [][Next]_vars

InitTwoRuns == InitWith(ShortCategoryFiles)

NextTwoRuns ==
  \/ OrganizeFiles
  \/ ProcessFile
  \/ GetUniqueFilename
  \/ PlaceFile
  \/ OrganizeReturn
  \/ RemoveDuplicates
  \/ SaveReport
  \/ NewOrganizer

\* two FileOrganizer objects, one after the other, on the same folder
SpecTwoRuns == InitTwoRuns /\ [][NextTwoRuns]_vars

(***************************************************************************)
(* Properties.                                                             *)
(***************************************************************************)
\* organize_files is past its snapshot and has not handed over to another operation
Organizing == pc \in {"loop", "unique", "resolved", "returned", "raised"}

Outcomes(st) == st.moved + st.duplicates_removed + st.skipped + st.errors

Contents(files) == {files[p].content : p \in DOMAIN files}

\* the snapshot of files consists of two files of one category with the same
\* bytes under different names, p and q
TwoCopies(files, p, q) ==
  /\ p # q
  /\ Snapshotted(files) = {p, q}
  /\ files[p].content = files[q].content
  /\ CategoryOf(p[2]) # 0
  /\ CategoryOf(p[2]) = CategoryOf(q[2])

FolderOf(p) == get_category_mappings[CategoryOf(p[2])].category

\* C1 as stated: when the source folder holds two files with the same bytes and
\* different names of one category, a non-preview organize_files ends with one
\* copy in the category folder and duplicates_found = 1, duplicates_removed = 1,
\* moved = 1.
C1_SecondIsDuplicate ==
  (pc = "returned" /\ ~dry_run) =>
    \A p, q \in Snapshotted(fs0) :
      TwoCopies(fs0, p, q) =>
        /\ stats.duplicates_found = 1
        /\ stats.duplicates_removed = 1
        /\ stats.moved = 1
        /\ Cardinality({x \in DOMAIN fs : x[1] = FolderOf(p)
                                           /\ fs[x].content = fs0[p].content}) = 1

\* C1 amended: the duplicate test is made only against a file that occupies the
\* destination name.  When neither name is occupied in the category folder and
\* both files can be moved, a non-preview organize_files that returns has moved
\* both: each is in the category folder under its own name and no longer in the
\* source folder, moved = 2 and duplicates_found = duplicates_removed = 0.
C1_BothCopiesMoved ==
  (pc = "returned" /\ ~dry_run) =>
    \A p, q \in Snapshotted(fs0) :
      ( /\ TwoCopies(fs0, p, q)
        /\ <<FolderOf(p), p[2]>> \notin DOMAIN fs0
        /\ <<FolderOf(q), q[2]>> \notin DOMAIN fs0
        /\ ~fs0[p].locked /\ ~fs0[q].locked )
      => /\ stats.moved = 2
         /\ stats.duplicates_found = 0
         /\ stats.duplicates_removed = 0
         /\ p \notin DOMAIN fs /\ q \notin DOMAIN fs
         /\ <<FolderOf(p), p[2]>> \in DOMAIN fs /\ fs[<<FolderOf(p), p[2]>>] = fs0[p]
         /\ <<FolderOf(q), q[2]>> \in DOMAIN fs /\ fs[<<FolderOf(q), q[2]>>] = fs0[q]

\* a non-preview run that returned after moving two copies of the same bytes
C1_Witness ==
  /\ pc = "returned" /\ ~dry_run
  /\ \E p, q \in Snapshotted(fs0) :
        /\ TwoCopies(fs0, p, q)
        /\ <<FolderOf(p), p[2]>> \in DOMAIN fs /\ <<FolderOf(q), q[2]>> \in DOMAIN fs
        /\ <<FolderOf(p), p[2]>> \notin DOMAIN fs0 /\ <<FolderOf(q), q[2]>> \notin DOMAIN fs0
  /\ stats.moved = 2

\* the organizer before this one made a preview run of organize_files on the
\* folder this one, not in preview, started from, and both runs returned
PreviewThenReal ==
  /\ Len(prev) = 1
  /\ prev[1].dry_run /\ prev[1].returned
  /\ ~dry_run /\ pc = "returned"
  /\ prev[1].fs0 = fs0 /\ prev[1].dirs0 = dirs0
  /\ prev[1].order = files_to_process

MovesCounted(st) == st.moved + st.renamed + st.duplicates_removed + st.errors

C3_NoContentLost ==
  (~dry_run /\ Organizing) => Contents(fs0) \subseteq Contents(fs)

\* C4: the loop of get_unique_filename makes at most 101 passes: while it runs
\* the passes made are counter - 1 and counter is at most 100, so that it ends.
C4_LoopBounded ==
  /\ iterations <= MaxAttempts + 1
  /\ pc = "unique" => (iterations = counter - 1 /\ counter <= MaxAttempts)

\* get_unique_filename returned the timestamp name after the last pass it may make
C4_Witness ==
  /\ pc = "resolved"
  /\ iterations = MaxAttempts
  /\ \E now \in Clock : new_name = TimestampName(files_to_process[pos][2], now)

\* C5 as stated: the path get_unique_filename returns lies in the target folder
\* and no file occupies it when it is returned.
C5_ReturnedPathFree ==
  pc = "resolved" =>
    /\ unique_path[1] = FolderOf(files_to_process[pos])
    /\ unique_path \notin DOMAIN fs

\* C6: remove_duplicates (the step that ends with pc = "deduplicated") leaves at
\* least one member of every group of files that share a hash, whichever copy
\* it keeps.
C6_GroupSurvives ==
  [][(pc # "deduplicated" /\ pc' = "deduplicated")
        => \A g \in find_all_duplicates(fs) : \E p \in g : p \in DOMAIN fs']_vars

\* remove_duplicates, not in preview, has deleted the copies of a group but one
C6_Witness ==
  /\ pc = "deduplicated" /\ ~dry_run
  /\ Cardinality(DOMAIN fs) < Cardinality(DOMAIN fs0)
  /\ stats.duplicates_removed > stats.duplicates_found

\* C7: in get_unique_filename, is_exact_duplicate answers true only for an
\* occupant whose hash was compared with the hash of the source file and found
\* equal and not empty; for an occupant of the same size and other content it
\* answers false.
C7_HashDecides ==
  (pc = "unique" /\ unique_path \in DOMAIN fs) =>
    LET file_path == files_to_process[pos]
        d == is_exact_duplicate(fs, hash_cache, file_path, unique_path)
    IN  /\ d.result =>
              /\ file_path \in DOMAIN d.cache /\ unique_path \in DOMAIN d.cache
              /\ d.cache[file_path] = d.cache[unique_path]
              /\ d.cache[file_path] # <<>>
              /\ fs[file_path].content = fs[unique_path].content
        /\ ( /\ Size(fs[file_path]) = Size(fs[unique_path])
             /\ fs[file_path].content # fs[unique_path].content ) => ~d.result

\* the loop went past an occupant of the size of the source file and of other
\* content, after hashing both
C7_Witness ==
  /\ pc = "unique" /\ iterations = 1
  /\ LET file_path == files_to_process[pos]
         occupant  == <<target_folder, file_path[2]>>
     IN  /\ occupant \in DOMAIN fs
         /\ Size(fs[file_path]) = Size(fs[occupant])
         /\ fs[file_path].content # fs[occupant].content
         /\ occupant \in DOMAIN hash_cache /\ file_path \in DOMAIN hash_cache
         /\ hash_cache[occupant] # hash_cache[file_path]

C9_NoFailureIsFatal == pc # "raised"

\* C10: in a non-preview organize_files every file handled so far gave one
\* outcome among moved, duplicate removed, skipped and error, and on return the
\* files handled are the snapshot: processed = moved + duplicates_removed +
\* skipped + errors.
C10_OneOutcomePerFile ==
  (~dry_run /\ pc \in {"loop", "unique", "resolved", "returned"}) =>
    /\ Outcomes(stats) = pos - 1
    /\ \A i, j \in DOMAIN files_to_process : files_to_process[i] = files_to_process[j] => i = j
    /\ pc = "returned" => stats.processed = Outcomes(stats)

\* a non-preview run returned after one file failed to move and one was skipped
C10_Witness ==
  /\ ~dry_run /\ pc = "returned"
  /\ stats.processed = 2 /\ stats.errors = 1 /\ stats.skipped = 1

\* the organizer before this one ran organize_files, not in preview, until it
\* returned; this one, not in preview either, is in organize_files, and every
\* file its source folder held at the start was there, the same, when the first
\* run started: no file was added between the runs
SecondRealRun ==
  /\ Len(prev) = 1
  /\ ~prev[1].dry_run /\ prev[1].returned
  /\ ~dry_run /\ Organizing
  /\ \A p \in DOMAIN fs0 : p[1] = Root => (p \in DOMAIN prev[1].fs0 /\ prev[1].fs0[p] = fs0[p])

\* the files the run before this one put into the category folders
PlacedBefore == {p \in DOMAIN fs0 : p[1] # Root /\ (p \notin DOMAIN prev[1].fs0 \/ prev[1].fs0[p] # fs0[p])}

FileHandled == pc \in {"unique", "resolved"} /\ pos' = pos + 1

\* the candidate names of a file name: the name itself, then base_1.ext, base_2.ext, ...
Candidate(name, k) == IF k = 0 THEN name ELSE NumberedName(name, k)

\* the least k >= 1 for which base_k.ext is not occupied in the folder
FirstFree(files, folder, name) ==
  CHOOSE k \in 1..(LongChain + 1) :
    /\ <<folder, Candidate(name, k)>> \notin DOMAIN files
    /\ \A j \in 1..(k - 1) : <<folder, Candidate(name, j)>> \in DOMAIN files

\* two files of the same size whose bytes can be read and have the same hash
SameBytes(files, p, q) ==
  /\ Size(files[p]) = Size(files[q])
  /\ HashesAgree(get_file_hash(files, p), get_file_hash(files, q))

\* the source file went to dest under a new name: it left its path, dest holds
\* it, the occupant of its own name is as it was, and moved and renamed both
\* rose by one
PlacedRenamed(file_path, natural, dest) ==
  /\ dest \notin DOMAIN fs
  /\ file_path \notin DOMAIN fs'
  /\ dest \in DOMAIN fs' /\ fs'[dest] = fs[file_path]
  /\ natural \in DOMAIN fs' /\ fs'[natural] = fs[natural]
  /\ stats'.moved = stats.moved + 1
  /\ stats'.renamed = stats.renamed + 1

\* C12 as stated: when the name of a source file is occupied in its category
\* folder by a file that is not its duplicate, a non-preview organize_files
\* places the source at the first unoccupied name base_k.ext of that folder,
\* leaves the occupant as it was and adds one to moved and to renamed.  (Taken
\* for a source file whose move does not fail.)
C12_PlacedAtFirstFree ==
  [][ ( /\ FileHandled /\ ~dry_run
        /\ <<target_folder, files_to_process[pos][2]>> \in DOMAIN fs
        /\ ~fs[files_to_process[pos]].locked
        /\ ~SameBytes(fs, files_to_process[pos], <<target_folder, files_to_process[pos][2]>>) )
      => LET file_path == files_to_process[pos]
             k == FirstFree(fs, target_folder, file_path[2])
         IN  PlacedRenamed(file_path, <<target_folder, file_path[2]>>,
                           <<target_folder, Candidate(file_path[2], k)>>) ]_vars

\* C12 amended: the same, when in addition the first unoccupied name base_k.ext
\* has k below 100, none of the occupants of base_1.ext ... base_(k-1).ext is a
\* duplicate of the source, the target folder can be listed and the move
\* succeeds.  (An occupant base_j.ext that is a duplicate makes the source a
\* duplicate; from 100 occupied names on the timestamp name is used; a move
\* that fails counts an error.)
C12_PlacedAtFirstFreeBelowLimit ==
  [][ ( /\ FileHandled /\ ~dry_run
        /\ <<target_folder, files_to_process[pos][2]>> \in DOMAIN fs
        /\ ~fs[files_to_process[pos]].locked
        /\ LET file_path == files_to_process[pos]
               k == FirstFree(fs, target_folder, file_path[2])
           IN  /\ k < MaxAttempts
               /\ \A j \in 0..(k - 1) :
                     ~SameBytes(fs, file_path, <<target_folder, Candidate(file_path[2], j)>>) )
      => LET file_path == files_to_process[pos]
             k == FirstFree(fs, target_folder, file_path[2])
         IN  PlacedRenamed(file_path, <<target_folder, file_path[2]>>,
                           <<target_folder, Candidate(file_path[2], k)>>) ]_vars

\* a non-preview run put a source file whose name and whose first numbered name
\* were occupied at the second numbered name
C12_Witness ==
  /\ ~dry_run /\ pc = "returned"
  /\ stats.moved = 1 /\ stats.renamed = 1
  /\ \E p \in {q \in Snapshotted(fs0) : CategoryOf(q[2]) # 0} :
        LET folder == FolderOf(p)
        IN  /\ <<folder, p[2]>> \in DOMAIN fs0 /\ <<folder, Candidate(p[2], 1)>> \in DOMAIN fs0
            /\ <<folder, Candidate(p[2], 2)>> \notin DOMAIN fs0
            /\ <<folder, Candidate(p[2], 2)>> \in DOMAIN fs
            /\ fs[<<folder, Candidate(p[2], 2)>>] = fs0[p]
            /\ fs[<<folder, p[2]>>] = fs0[<<folder, p[2]>>]
            /\ p \notin DOMAIN fs

\* the lower-cased extension of the name is in the list of no category
NoCategory(name) ==
  \A i \in DOMAIN get_category_mappings :
    ~InSeq(Lower(Suffix(name)), get_category_mappings[i].extensions)

\* C13: a file of the snapshot whose lower-cased extension belongs to no
\* category stays at its path as it was all through organize_files, and no
\* category folder gets a file of its name; the step that handles it adds one to
\* skipped and changes no other counter and no file.
C13_NoCategoryLeftInPlace ==
  /\ [](Organizing =>
          \A i \in DOMAIN files_to_process :
            LET p == files_to_process[i]
            IN  NoCategory(p[2]) =>
                  /\ p \in DOMAIN fs /\ fs[p] = fs0[p]
                  /\ \A q \in DOMAIN fs : (q[1] # Root /\ q[2] = p[2]) => q \in DOMAIN fs0)
  /\ [][ ( /\ pc \in {"loop", "unique", "resolved"}
           /\ pos \in DOMAIN files_to_process
           /\ NoCategory(files_to_process[pos][2])
           /\ (pos' # pos \/ pc' # pc) )
         => /\ pos' = pos + 1
            /\ stats' = [stats EXCEPT !.skipped = @ + 1]
            /\ fs' = fs /\ dirs' = dirs ]_vars

\* a non-preview run returned after skipping a file of no category and moving
\* another file
C13_Witness ==
  /\ ~dry_run /\ pc = "returned"
  /\ stats.skipped = 1 /\ stats.moved = 1
  /\ \E i \in DOMAIN files_to_process :
        /\ NoCategory(files_to_process[i][2])
        /\ files_to_process[i] \in DOMAIN fs

\* C14 as stated: the hash cache holds no stale entry: every path that is a key
\* of hash_cache is the path of a file that exists, a path whose file
\* organize_files deleted or moved being a key no longer.
C14_NoStaleEntry == \A p \in DOMAIN hash_cache : p \in DOMAIN fs

\* C15: when the occupant of the candidate path has the size and the non-empty
\* hash of the source file, get_unique_filename returns None: duplicates_found
\* rises by one, moved and renamed do not, and the occupant is as it was.  Not
\* in preview the source file is unlinked and duplicates_removed rises by one,
\* or, if the unlink fails, errors rises by one and the file stays; in preview
\* nothing is deleted and duplicates_removed does not rise.
C15_DuplicateBranch ==
  [][ ( /\ pc = "unique" /\ (pc' # pc \/ iterations' # iterations)
        /\ unique_path \in DOMAIN fs
        /\ SameBytes(fs, files_to_process[pos], unique_path) )
      => LET file_path == files_to_process[pos]
             found == [stats EXCEPT !.duplicates_found = @ + 1]
         IN  /\ pc' = "loop" /\ pos' = pos + 1
             /\ unique_path \in DOMAIN fs' /\ fs'[unique_path] = fs[unique_path]
             /\ stats'.moved = stats.moved /\ stats'.renamed = stats.renamed
             /\ IF dry_run
                THEN fs' = fs /\ stats' = found
                ELSE IF fs[file_path].locked
                THEN fs' = fs /\ stats' = [found EXCEPT !.errors = @ + 1]
                ELSE /\ fs' = [p \in DOMAIN fs \ {file_path} |-> fs[p]]
                     /\ stats' = [found EXCEPT !.duplicates_removed = @ + 1] ]_vars

\* a non-preview run went past a first occupant that was no duplicate, found a
\* duplicate at the numbered name and deleted the source file
C15_Witness ==
  /\ ~dry_run /\ pc = "loop" /\ iterations = 2 /\ pos > 1
  /\ stats.duplicates_found = 1 /\ stats.duplicates_removed = 1
  /\ files_to_process[pos - 1] \notin DOMAIN fs
  /\ files_to_process[pos - 1] \in DOMAIN hash_cache

\* get_unique_filename stands before an occupied candidate, and the source file
\* or the occupant cannot be read
FailedRead ==
  /\ pc = "unique" /\ unique_path \in DOMAIN fs
  /\ (~fs[files_to_process[pos]].readable \/ ~fs[unique_path].readable)

\* C16: when the source file or the occupant cannot be hashed, also when neither
\* can and the sizes are equal, is_exact_duplicate answers false, and the pass
\* of the loop that made the comparison deletes nothing and counts no
\* duplicate: it goes on to the next name.
C16_FailedHashNeverEqual ==
  /\ [](FailedRead =>
          ~is_exact_duplicate(fs, hash_cache, files_to_process[pos], unique_path).result)
  /\ [][ (FailedRead /\ (pc' # pc \/ iterations' # iterations))
         => /\ fs' = fs /\ stats' = stats /\ pos' = pos
            /\ pc' \in {"unique", "resolved"}
            /\ new_name' # new_name ]_vars

\* the loop went past an occupant of the size of the source file after the
\* hashing of both had failed
C16_Witness ==
  /\ pc = "unique" /\ iterations = 1
  /\ LET file_path == files_to_process[pos]
         occupant  == <<target_folder, file_path[2]>>
     IN  /\ file_path \in DOMAIN fs /\ occupant \in DOMAIN fs
         /\ Size(fs[file_path]) = Size(fs[occupant])
         /\ file_path \in DOMAIN hash_cache /\ hash_cache[file_path] = <<>>
         /\ occupant \in DOMAIN hash_cache /\ hash_cache[occupant] = <<>>

\* the step that is a call of remove_duplicates
Deduplicating == pc # "deduplicated" /\ pc' = "deduplicated"

\* C17: in every group of duplicates remove_duplicates keeps one file, which
\* has the least modification time of the group when keep_oldest is true and the
\* greatest when it is false, and it unlinks every other member: not in preview
\* the kept file is still there and the others are gone, but for those whose
\* unlink fails.
C17_KeptFileIsExtreme ==
  [][ Deduplicating =>
        \A g \in find_all_duplicates(fs) :
          /\ Cardinality(g \cap file_to_keep') = 1
          /\ \A k \in g \cap file_to_keep' :
                /\ k \in DOMAIN fs' /\ fs'[k] = fs[k]
                /\ \A q \in g : IF keep_oldest' THEN fs[k].mtime <= fs[q].mtime
                                                ELSE fs[k].mtime >= fs[q].mtime
                /\ \A q \in g \ {k} :
                      (~dry_run /\ ~fs[q].locked) => q \notin DOMAIN fs' ]_vars

\* remove_duplicates(keep_oldest=False), not in preview, kept the newest of
\* three copies and deleted the two older ones
C17_Witness ==
  /\ pc = "deduplicated" /\ ~dry_run /\ ~keep_oldest
  /\ stats.duplicates_removed = 2 /\ stats.duplicates_found = 0
  /\ \E k \in file_to_keep : k \in DOMAIN fs /\ fs[k].mtime = 2

\* the files of the tree that are not hidden
Visible(files) == {p \in DOMAIN files : ~StartsWithDot(p[2])}

\* C18: when remove_duplicates is called after a non-preview organize_files
\* returned, every file that is not hidden can be read, and no unlink fails
\* (every file that cannot be unlinked is one that is kept or has no copy), then
\* after it no two files of the tree that are not hidden have the same content,
\* in whichever folders they are.
C18_NoTwoAlike ==
  [][ ( /\ pc = "returned" /\ pc' = "deduplicated" /\ ~dry_run
        /\ \A p \in Visible(fs) : fs[p].readable
        /\ \A p \in Visible(fs) :
              fs[p].locked =>
                \/ p \in file_to_keep'
                \/ \A q \in Visible(fs) \ {p} : fs[q].content # fs[p].content )
      => \A p, q \in Visible(fs') : p # q => fs'[p].content # fs'[q].content ]_vars

\* a non-preview run moved two files of the same content into two category
\* folders, and remove_duplicates then kept one of them and deleted the other
C18_Witness ==
  /\ pc = "deduplicated" /\ ~dry_run
  /\ stats.moved = 2 /\ stats.duplicates_removed = 1
  /\ \E p, q \in {r \in Snapshotted(fs0) : CategoryOf(r[2]) # 0} :
        /\ FolderOf(p) # FolderOf(q)
        /\ fs0[p].content = fs0[q].content
        /\ <<FolderOf(p), p[2]>> \in file_to_keep /\ <<FolderOf(p), p[2]>> \in DOMAIN fs
        /\ <<FolderOf(q), q[2]>> \notin DOMAIN fs

\* a file that is not hidden, can be read, and has the content of another such file
HasCopy(files, p) ==
  /\ p \in Visible(files) /\ files[p].readable
  /\ \E q \in Visible(files) \ {p} : files[q].readable /\ files[q].content = files[p].content

\* C19: an unlink that fails in remove_duplicates does not end the pass: every
\* file that has a copy, is not the one kept and can be unlinked is deleted,
\* whatever failed before it in its group or in another group; what is added to
\* duplicates_removed is the number of files deleted, failed deletions not
\* being counted; in preview nothing is deleted and nothing is added.
C19_FailureDoesNotStopPass ==
  [][ Deduplicating =>
        /\ \A p \in DOMAIN fs :
              (HasCopy(fs, p) /\ p \notin file_to_keep' /\ ~fs[p].locked /\ ~dry_run)
                 => p \notin DOMAIN fs'
        /\ stats' = [stats EXCEPT !.duplicates_removed =
                                     @ + Cardinality(DOMAIN fs \ DOMAIN fs')]
        /\ \A p \in DOMAIN fs' : p \in DOMAIN fs /\ fs'[p] = fs[p]
        /\ dry_run => (fs' = fs /\ stats' = stats) ]_vars

\* remove_duplicates, not in preview, found two groups; the unlink of a copy in
\* one group failed and a copy of the other group was deleted and counted
C19_Witness ==
  /\ pc = "deduplicated" /\ ~dry_run
  /\ Cardinality(file_to_keep) = 2
  /\ \E p \in DOMAIN fs : fs[p].locked /\ p \notin file_to_keep /\ HasCopy(fs, p)
  /\ stats.duplicates_removed = 1 /\ stats.duplicates_found = 0
  /\ Cardinality(DOMAIN fs0) = Cardinality(DOMAIN fs) + 1

\* C20 as stated: in every state of organize_files and of remove_duplicates
\* called after it on the same FileOrganizer, moved + duplicates_removed is at
\* most processed, so that the success rate print_statistics shows is at most
\* 100%, and renamed is at most moved.
C20_SuccessAtMostProcessed ==
  (Organizing \/ (pc \in {"deduplicated", "saved"} /\ pos > 0)) =>
    /\ stats.moved + stats.duplicates_removed <= stats.processed
    /\ stats.renamed <= stats.moved

====
